---- MODULE Spec2Model ----
(***************************************************************************)
(* A model of ssg (src/ssg/main.py): the library builder (build_library    *)
(* and the functions it calls) and the build engine (build, output_site).  *)
(*                                                                         *)
(* Text.  A Python str is a sequence of one-character strings, so that the *)
(* operations the code performs on page ids and paths (endswith, pathlib's *)
(* suffix and with_suffix, os.path.dirname, the < of str) are computed     *)
(* character by character.  None (for lighter/heavier) and "" are <<>>.    *)
(*                                                                         *)
(* Files.  A tree is a function from the relative path of each existing    *)
(* file to a record [mtime, toml, text]: toml is the parsed descriptor of  *)
(* a .page file, text the body of any other file.  A directory exists when *)
(* a file lies below it.                                                   *)
(***************************************************************************)
EXTENDS Integers, Sequences, FiniteSets, TLC

VARIABLES
    content,    \* the content tree: path -> [mtime, toml, text]
    cdirs,      \* mtime of each directory of the content tree
    templates,  \* the templates directory: template name -> text
    public,     \* the output tree: path -> [mtime, body]
    pdirs,      \* mtime of each directory of the output tree
    clock,      \* the file system's current timestamp
    pc,         \* position of the running build
    quick,      \* the quick argument of the running build
    library,    \* the Library of the running build / last build_library
    cur,        \* index in library.tasks of the task output_site is at
    written,    \* the output paths the running build opened for writing
    rendered,   \* the tasks (by index) the running build rendered
    hist,       \* counts of builds and edits, and the output tree as the
                \* running build found it
    status      \* how main ended: the exception that left build and the
                \* exit code, or the exception that escaped main

vars == <<content, cdirs, templates, public, pdirs, clock, pc, quick,
          library, cur, written, rendered, hist, status>>

-----------------------------------------------------------------------------
(* Bounds *)

MaxPages == 3
MaxWeight == 1
MaxEdits == 1
MaxBuilds == 2

-----------------------------------------------------------------------------
(* Python str *)

\* The characters used, in code point order.
Alphabet ==
    <<".", "/", "_", "a", "b", "c", "d", "e", "f", "g", "h", "i", "j", "k",
      "l", "m", "n", "o", "p", "q", "r", "s", "t", "u", "v", "w", "x", "y",
      "z">>

Ord(c) == CHOOSE i \in 1..Len(Alphabet) : Alphabet[i] = c

Range(s) == {s[i] : i \in 1..Len(s)}

Min2(a, b) == IF a <= b THEN a ELSE b

Max2(a, b) == IF a >= b THEN a ELSE b

\* a < b for two str: at the first position where they differ the code
\* point of a is smaller, or a is a proper prefix of b.
StrLess(a, b) ==
    \E i \in 1..(Min2(Len(a), Len(b)) + 1) :
        /\ \A j \in 1..(i - 1) : a[j] = b[j]
        /\ IF i > Len(a) THEN i <= Len(b)
           ELSE i <= Len(b) /\ Ord(a[i]) < Ord(b[i])

\* s.endswith(suf)
EndsWith(s, suf) ==
    /\ Len(suf) <= Len(s)
    /\ SubSeq(s, Len(s) - Len(suf) + 1, Len(s)) = suf

\* s.rfind(c) + 1: the last position of c in s, 0 when there is none
RFind(s, c) ==
    IF c \in Range(s)
    THEN CHOOSE i \in 1..Len(s) :
            s[i] = c /\ \A j \in (i + 1)..Len(s) : s[j] # c
    ELSE 0

\* s.split(c)
RECURSIVE SplitOn(_, _)
SplitOn(s, c) ==
    IF c \notin Range(s) THEN <<s>>
    ELSE LET i == CHOOSE i \in 1..Len(s) :
                     s[i] = c /\ \A j \in 1..(i - 1) : s[j] # c
         IN  <<SubSeq(s, 1, i - 1)>> \o SplitOn(SubSeq(s, i + 1, Len(s)), c)

\* os.path.dirname(p) of a relative posix path
dirname(p) == SubSeq(p, 1, RFind(p, "/") - 1)

\* PurePath.name
PathName(p) == SubSeq(p, RFind(p, "/") + 1, Len(p))

\* PurePath.suffix: from the last dot of the name, unless that dot is the
\* first or the last character of the name
PathSuffix(p) ==
    LET name == PathName(p)
        i == RFind(name, ".")
    IN  IF 1 < i /\ i < Len(name) THEN SubSeq(name, i, Len(name)) ELSE <<>>

\* with_suffix raises ValueError for these suffixes
InvalidSuffix(suffix) ==
    \/ "/" \in Range(suffix)
    \/ suffix # <<>> /\ Head(suffix) # "."
    \/ suffix = <<".">>

\* PurePath.with_suffix(suffix), for a valid suffix
with_suffix(p, suffix) ==
    SubSeq(p, 1, Len(p) - Len(PathSuffix(p))) \o suffix

\* PurePath.parent.as_posix()
ParentPosix(p) == IF dirname(p) = <<>> THEN <<".">> ELSE dirname(p)

\* dir / rel for a directory path dir ("" is the root of the tree)
Join(dir, rel) == IF dir = <<>> THEN rel ELSE dir \o <<"/">> \o rel

SufPage == <<".", "p", "a", "g", "e">>
SufHtml == <<".", "h", "t", "m", "l">>
StrIndex == <<"i", "n", "d", "e", "x">>
IgnoreName == <<".", "i", "g", "n", "o", "r", "e">>

-----------------------------------------------------------------------------
(* Descriptors: the dict tomllib returns for a .page file.  Every field   *)
(* records the shape of its TOML value in kind, and the value beside it.  *)
(*   template: "absent" | "str" (name) | "int"                             *)
(*   suffix:   "absent" | "str" (str)  | "int"                             *)
(*   weight:   "absent" | "int" (int) | "None" (the string "None") |       *)
(*             "str" (another string) | "bool" (int is 0 or 1) | "float"   *)
(*   tags:     "absent" | "list" (list of strings) | "str" | "mixed" (a    *)
(*             list holding a value that is not a string)                  *)
(*   content:  "absent" | "table" (entries, in order, of [key, isStr,      *)
(*             path]: isStr is whether the value is a string) | "str" |    *)
(*             "list"                                                      *)
(*   data:     the data section, opaque                                    *)
(* valid is FALSE for a file that is not a TOML document.                  *)

NoToml ==
    [valid |-> TRUE,
     template |-> [kind |-> "absent", name |-> ""],
     suffix |-> [kind |-> "absent", str |-> <<>>],
     weight |-> [kind |-> "absent", int |-> 0],
     tags |-> [kind |-> "absent", list |-> <<>>],
     content |-> [kind |-> "absent", entries |-> <<>>],
     data |-> 0]

\* The body of a file that is no descriptor.
Raw(n) == <<"raw", n>>

PageFile(mtime, toml) == [mtime |-> mtime, toml |-> toml, text |-> Raw(0)]

TextFile(mtime, n) == [mtime |-> mtime, toml |-> NoToml, text |-> Raw(n)]

\* Page.weight: None, or an int
WNone == [isNone |-> TRUE, int |-> 0]

WInt(n) == [isNone |-> FALSE, int |-> n]

\* The text of a file that may be sharded: a sequence of items, each a
\* character or a match of shard_re (a shard marker up to the end of its
\* line) with the identifier it captures.
Chars(items) == <<"text", items>>

Char(c) == [m |-> FALSE, id |-> <<>>, c |-> c]

Marker(id) == [m |-> TRUE, id |-> id, c |-> ""]

\* The positions of the markers in items, ascending
MarkerPositions(items) ==
    LET S == {i \in 1..Len(items) : items[i].m}
        RECURSIVE Asc(_)
        Asc(T) == IF T = {} THEN <<>>
                  ELSE LET i == CHOOSE i \in T : \A j \in T : i <= j
                       IN  <<i>> \o Asc(T \ {i})
    IN  Asc(S)

\* The characters of items[from..to]
CharsOf(items, from, to) ==
    [i \in 1..(to - from + 1) |-> items[from + i - 1].c]

\* zip(shards[1::2], shards[2::2]) of re.split(shard_re, content): each
\* identifier with the text from its marker to the next marker or the end
Shards(items) ==
    LET pos == MarkerPositions(items)
    IN  [n \in 1..Len(pos) |->
            [id |-> items[pos[n]].id,
             shard |-> CharsOf(items, pos[n] + 1,
                               IF n < Len(pos) THEN pos[n + 1] - 1
                               ELSE Len(items))]]

IsSpace(c) == c \in {" ", "\n"}

\* s.strip()
RECURSIVE Strip(_)
Strip(s) ==
    IF s = <<>> THEN s
    ELSE IF IsSpace(Head(s)) THEN Strip(Tail(s))
    ELSE IF IsSpace(s[Len(s)]) THEN Strip(SubSeq(s, 1, Len(s) - 1))
    ELSE s

\* s.replace('"""', r'""\"')
RECURSIVE EscapeQuotes(_)
EscapeQuotes(s) ==
    IF Len(s) >= 3 /\ SubSeq(s, 1, 3) = <<"\"", "\"", "\"">>
    THEN <<"\"", "\"", "\\", "\"">> \o EscapeQuotes(SubSeq(s, 4, Len(s)))
    ELSE IF s = <<>> THEN s
    ELSE <<Head(s)>> \o EscapeQuotes(Tail(s))

RECURSIVE SkipSpaces(_)
SkipSpaces(s) ==
    IF s # <<>> /\ Head(s) = " " THEN SkipSpaces(Tail(s)) ELSE s

RECURSIVE SkipSpacesAndNewlines(_)
SkipSpacesAndNewlines(s) ==
    IF s # <<>> /\ IsSpace(Head(s)) THEN SkipSpacesAndNewlines(Tail(s)) ELSE s

\* What tomllib makes of the basic multi-line string """s""": raises is
\* whether it raises TOMLDecodeError, str the string otherwise.  A backslash
\* starts an escape (\" \\ \n), or before the end of a line swallows the
\* white space that follows; a backslash before any other character, or
\* before the closing quotes, is an error.  s holds no three quotes in a row.
RECURSIVE loads_string(_)
loads_string(s) ==
    IF s = <<>> THEN [raises |-> FALSE, str |-> <<>>]
    ELSE IF Head(s) # "\\"
    THEN LET r == loads_string(Tail(s))
         IN  [raises |-> r.raises, str |-> <<Head(s)>> \o r.str]
    ELSE IF Len(s) = 1 THEN [raises |-> TRUE, str |-> <<>>]
    ELSE IF s[2] \in {"\"", "\\"}
    THEN LET r == loads_string(SubSeq(s, 3, Len(s)))
         IN  [raises |-> r.raises, str |-> <<s[2]>> \o r.str]
    ELSE IF s[2] = "n"
    THEN LET r == loads_string(SubSeq(s, 3, Len(s)))
         IN  [raises |-> r.raises, str |-> <<"\n">> \o r.str]
    ELSE IF s[2] = "\n"
    THEN loads_string(SkipSpacesAndNewlines(SubSeq(s, 3, Len(s))))
    ELSE IF s[2] = " "
    THEN LET t == SkipSpaces(SubSeq(s, 3, Len(s)))
         IN  IF t # <<>> /\ Head(t) = "\n"
             THEN loads_string(SkipSpacesAndNewlines(t))
             ELSE [raises |-> TRUE, str |-> <<>>]
    ELSE [raises |-> TRUE, str |-> <<>>]

\* The segments of a dotted key
KeyParts(id) == SplitOn(id, ".")

\* Keys a and b cannot both be set: one is a table on the path of the other.
KeysClash(a, b) ==
    /\ a # b
    /\ Len(KeyParts(a)) < Len(KeyParts(b))
    /\ SubSeq(KeyParts(b), 1, Len(KeyParts(a))) = KeyParts(a)

\* process_content of sharded items: shard_dict turned to TOML statements
\* and loaded.  The dict is given flat, each identifier with what it is
\* bound to: isList is whether that is a list, strs the string(s).
process_shards(items) ==
    LET shards == Shards(items)
        ids == {shards[n].id : n \in 1..Len(shards)}
        Bodies(id) ==
            LET idx == SelectSeq([n \in 1..Len(shards) |-> n],
                                 LAMBDA n : shards[n].id = id)
            IN  [k \in 1..Len(idx) |->
                    loads_string(EscapeQuotes(Strip(shards[idx[k]].shard)))]
    IN  [err |-> IF \/ \E id \in ids : \E k \in 1..Len(Bodies(id)) :
                          Bodies(id)[k].raises
                    \/ \E a, b \in ids : KeysClash(a, b)
                 THEN "TOMLDecodeError" ELSE "",
         value |-> [id \in ids |->
                       [isList |-> Len(Bodies(id)) > 1,
                        strs |-> [k \in 1..Len(Bodies(id)) |->
                                     Bodies(id)[k].str]]]]

\* process_content(filepath), for a file that is neither .json nor .toml:
\* err is the exception it raises ("" when it returns), value what it
\* returns.  A text without a shard marker at its very start is returned as
\* it is.
process_content(tree, path) ==
    LET text == tree[path].text
    IN  IF text[1] = "text" /\ text[2] # <<>> /\ text[2][1].m
        THEN process_shards(text[2])
        ELSE [err |-> "", value |-> text]

-----------------------------------------------------------------------------
(* Page, Task *)

NoneId == <<>>

Page(id, path, dir, filename, subdirs, cont, data, tags, weight) ==
    [id |-> id, path |-> path, dir |-> dir, filename |-> filename,
     subdirs |-> subdirs, content |-> cont, data |-> data, tags |-> tags,
     weight |-> weight,
     siblings |-> <<>>, lighter |-> NoneId, heavier |-> NoneId]

Task(page_id, latest_timestamp, template, output_path) ==
    [page_id |-> page_id, latest_timestamp |-> latest_timestamp,
     template |-> template, output_path |-> output_path]

NoPage == Page(<<>>, <<>>, <<>>, <<>>, {}, <<>>, 0, <<>>, WNone)

NoTask == Task(<<>>, 0, "", <<>>)

\* What process_page_file does: err is "" when it returns (page, task),
\* and the name of the exception it raises otherwise, with the notes the
\* exception carries (the paths they name); hasTask is whether the task it
\* returns is not None.
Outcome(err, page, hasTask, task) ==
    [err |-> err, notes |-> <<>>, page |-> page, hasTask |-> hasTask,
     task |-> task]

Raises(err) == Outcome(err, NoPage, FALSE, NoTask)

\* process_weight: raises is whether it raises TypeError, weight is what it
\* returns otherwise.  A TOML boolean is a Python bool, an instance of int,
\* and is returned as it is (True == 1, False == 0).
process_weight(toml, page_id) ==
    LET weight0 == toml.weight
        weight ==
            IF weight0.kind = "absent" /\ ~EndsWith(page_id, StrIndex)
            THEN [kind |-> "int", int |-> 0]
            ELSE IF weight0.kind = "None"
            THEN [kind |-> "absent", int |-> 0]
            ELSE weight0
    IN  [raises |-> weight.kind \notin {"int", "bool", "absent"},
         weight |-> IF weight.kind = "absent" THEN WNone
                    ELSE WInt(weight.int)]

\* The latest timestamp after the first n entries of the content table.
RECURSIVE LatestTimestamp(_, _, _, _)
LatestTimestamp(tree, page_path, entries, n) ==
    IF n = 0 THEN tree[page_path].mtime
    ELSE Max2(LatestTimestamp(tree, page_path, entries, n - 1),
              tree[Join(dirname(page_path), entries[n].path)].mtime)

\* process_page_file(content_dir, subdirs, page_id) on the content tree
\* `tree`.
process_page_file(tree, subdirs, page_id) ==
    LET page_path == with_suffix(page_id, SufPage)
        toml == tree[page_path].toml
        entries == toml.content.entries
        EntryOk(e) ==
            e.isStr /\ Join(dirname(page_path), e.path) \in DOMAIN tree
        EntryErr(e) ==
            IF ~EntryOk(e) THEN "TypeError"
            ELSE process_content(tree, Join(dirname(page_path), e.path)).err
        bad == {i \in 1..Len(entries) : EntryErr(entries[i]) # ""}
        first_bad == entries[CHOOSE i \in bad : \A j \in bad : i <= j]
        content_err == IF bad = {} THEN "" ELSE EntryErr(first_bad)
        \* process_content notes the path of the file it failed on
        content_notes ==
            IF EntryOk(first_bad)
            THEN <<Join(dirname(page_path), first_bad.path)>>
            ELSE <<>>
        cont ==
            [i \in 1..Len(entries) |->
                <<entries[i].key,
                  process_content(
                      tree, Join(dirname(page_path), entries[i].path)).value>>]
        latest_timestamp ==
            LatestTimestamp(tree, page_path, entries, Len(entries))
        suffix ==
            IF toml.suffix.kind = "absent" THEN SufHtml ELSE toml.suffix.str
        path == with_suffix(page_id, suffix)
        w == process_weight(toml, page_id)
    IN  IF page_path \notin DOMAIN tree THEN Raises("FileNotFoundError")
        ELSE IF ~toml.valid THEN Raises("TOMLDecodeError")
        ELSE IF toml.content.kind \in {"str", "list"} THEN Raises("TypeError")
        ELSE IF content_err # ""
        THEN [Raises(content_err) EXCEPT !.notes = content_notes]
        ELSE IF toml.template.kind = "int" THEN Raises("TypeError")
        ELSE IF toml.template.kind = "str" /\ toml.suffix.kind = "int"
        THEN Raises("TypeError")
        ELSE IF toml.template.kind = "str" /\ InvalidSuffix(suffix)
        THEN Raises("ValueError")
        ELSE IF toml.tags.kind \in {"str", "mixed"} THEN Raises("TypeError")
        ELSE IF w.raises THEN Raises("TypeError")
        ELSE IF toml.template.kind = "str"
        THEN Outcome("",
                     Page(page_id, path, ParentPosix(path), PathName(path),
                          subdirs, cont, toml.data, toml.tags.list, w.weight),
                     TRUE,
                     Task(page_id, latest_timestamp, toml.template.name, path))
        ELSE Outcome("",
                     Page(page_id, <<>>, ParentPosix(page_id), <<>>,
                          subdirs, cont, toml.data, toml.tags.list, w.weight),
                     FALSE, NoTask)

-----------------------------------------------------------------------------
(* Sibling resolver *)

\* KeyLess with equal weights broken by descending id.
KeyLess_DescendingId(pages, a, b) ==
    \/ pages[a].weight.int < pages[b].weight.int
    \/ /\ pages[a].weight.int = pages[b].weight.int
       /\ StrLess(b, a)

\* key(a) < key(b) for key(a) = (pages[a].weight, a), both weights int
KeyLess(pages, a, b) ==
    \/ pages[a].weight.int < pages[b].weight.int
    \/ /\ pages[a].weight.int = pages[b].weight.int
       /\ StrLess(a, b)

\* sorted(S, key=key) for a set S of ids of pages with int weights
RECURSIVE SortedByKey(_, _)
SortedByKey(S, pages) ==
    IF S = {} THEN <<>>
    ELSE LET first == CHOOSE a \in S :
                         \A b \in S \ {a} : KeyLess(pages, a, b)
         IN  <<first>> \o SortedByKey(S \ {first}, pages)

\* sort_siblings with an unweighted page placed like any other.
sort_siblings_NoUnweighted(siblings, me, pages) ==
    LET lighter ==
            SortedByKey({s \in siblings \ {me} : KeyLess(pages, s, me)}, pages)
        heavier ==
            SortedByKey({s \in siblings \ {me} : ~KeyLess(pages, s, me)}, pages)
    IN  [siblings |-> lighter \o heavier,
         lighter |-> IF lighter # <<>> THEN lighter[Len(lighter)] ELSE NoneId,
         heavier |-> IF heavier # <<>> THEN heavier[1] ELSE NoneId]

\* sort_siblings with heavier taken from the wrong end of the heavier list.
sort_siblings_HeavierLast(siblings, me, pages) ==
    IF pages[me].weight.isNone
    THEN [siblings |-> SortedByKey(siblings, pages),
          lighter |-> NoneId, heavier |-> NoneId]
    ELSE LET lighter ==
                 SortedByKey({s \in siblings \ {me} : KeyLess(pages, s, me)},
                             pages)
             heavier ==
                 SortedByKey({s \in siblings \ {me} : ~KeyLess(pages, s, me)},
                             pages)
         IN  [siblings |-> lighter \o heavier,
              lighter |-> IF lighter # <<>> THEN lighter[Len(lighter)]
                          ELSE NoneId,
              heavier |-> IF heavier # <<>> THEN heavier[Len(heavier)]
                          ELSE NoneId]

sort_siblings(siblings, me, pages) ==
    IF pages[me].weight.isNone
    THEN [siblings |-> SortedByKey(siblings, pages),
          lighter |-> NoneId, heavier |-> NoneId]
    ELSE LET lighter ==
                 SortedByKey({s \in siblings \ {me} : KeyLess(pages, s, me)},
                             pages)
             heavier ==
                 SortedByKey({s \in siblings \ {me} : ~KeyLess(pages, s, me)},
                             pages)
         IN  [siblings |-> lighter \o heavier,
              lighter |-> IF lighter # <<>> THEN lighter[Len(lighter)]
                          ELSE NoneId,
              heavier |-> IF heavier # <<>> THEN heavier[1] ELSE NoneId]

\* sibling_dict with the pages that have no output path let in.
sibling_dict_AnyPath(pages, dir_) ==
    {page_id \in DOMAIN pages :
        /\ dirname(page_id) = dir_
        /\ ~pages[page_id].weight.isNone}

\* sibling_dict[dir_] of fix_siblings; the empty set when dir_ is no key
sibling_dict(pages, dir_) ==
    {page_id \in DOMAIN pages :
        /\ dirname(page_id) = dir_
        /\ ~pages[page_id].weight.isNone
        /\ pages[page_id].path # <<>>}

\* The page map fix_siblings leaves.
fix_siblings(pages) ==
    [page_id \in DOMAIN pages |->
        LET dir_ == dirname(page_id)
        IN  IF sibling_dict(pages, dir_) = {} THEN pages[page_id]
            ELSE LET r == sort_siblings(sibling_dict(pages, dir_),
                                        page_id, pages)
                 IN  [pages[page_id] EXCEPT !.siblings = r.siblings,
                                            !.lighter = r.lighter,
                                            !.heavier = r.heavier]]

-----------------------------------------------------------------------------
(* Tag index *)

\* The ids appended to tags[tag]: one for each occurrence of tag in the
\* tags of each page, the pages taken in the order of the page map.
RECURSIVE TagIds(_, _, _)
TagIds(pages, ids, tag) ==
    IF ids = <<>> THEN <<>>
    ELSE SelectSeq([i \in 1..Len(pages[Head(ids)].tags) |->
                       IF pages[Head(ids)].tags[i] = tag
                       THEN Head(ids) ELSE NoneId],
                   LAMBDA x : x # NoneId)
         \o TagIds(pages, Tail(ids), tag)

\* Comparing the keys of a and b raises TypeError: None against an int.
KeyRaises(pages, a, b) == pages[a].weight.isNone # pages[b].weight.isNone

\* key(a) < key(b), where None = None sends the comparison on to the ids
TagKeyLess(pages, a, b) ==
    IF pages[a].weight.isNone THEN StrLess(a, b) ELSE KeyLess(pages, a, b)

\* sorted(l, key=...) of a list whose keys can be compared: stable
RECURSIVE SortedList(_, _)
SortedList(l, pages) ==
    IF l = <<>> THEN <<>>
    ELSE LET rest == SortedList(Tail(l), pages)
             n == Cardinality({i \in 1..Len(rest) :
                                  TagKeyLess(pages, rest[i], Head(l))})
         IN  SubSeq(rest, 1, n) \o <<Head(l)>> \o SubSeq(rest, n + 1, Len(rest))

AllTags(pages) == UNION {Range(pages[id].tags) : id \in DOMAIN pages}

\* process_tags: raises is whether the sort of some tag's list raises
\* TypeError, tags the index it returns otherwise.  ids is the page map's
\* order of keys.
process_tags(pages, ids) ==
    [raises |-> \E tag \in AllTags(pages) :
                    \E a, b \in Range(TagIds(pages, ids, tag)) :
                        KeyRaises(pages, a, b),
     tags |-> [tag \in AllTags(pages) |->
                  SortedList(TagIds(pages, ids, tag), pages)]]

-----------------------------------------------------------------------------
(* Library builder *)

PageFiles(tree) == {p \in DOMAIN tree : PathSuffix(p) = SufPage}

\* The directories of a tree, the root ("") excepted.
AllDirs(tree) ==
    UNION {{SubSeq(p, 1, i - 1) : i \in {j \in 1..Len(p) : p[j] = "/"}} :
              p \in DOMAIN tree}

\* Directory d lies above directory e.
IsAbove(d, e) ==
    /\ d # e
    /\ \/ d = <<>>
       \/ /\ Len(d) < Len(e)
          /\ SubSeq(e, 1, Len(d) + 1) = d \o <<"/">>

\* subdirs of build_library: the names of the directories in dirpath that
\* hold no .ignore file (as a set: their order is that of the directory
\* listing).
Subdirs(tree, dirpath) ==
    {PathName(d) : d \in
        {d \in AllDirs(tree) :
            /\ dirname(d) = dirpath
            /\ Join(d, IgnoreName) \notin DOMAIN tree}}

\* The orders in which os.walk (top down) can reach the files `files` of a
\* tree: the files of a directory before those of the directories below it,
\* and the files of one directory together.  Within a directory the order is
\* that of the directory listing, which is any.
WalkOrdersOf(tree, files) ==
    {order \in [1..Cardinality(files) -> files] :
        /\ \A i, j \in DOMAIN order : order[i] = order[j] => i = j
        /\ \A i, j \in DOMAIN order :
              IsAbove(dirname(order[j]), dirname(order[i])) => j < i
        /\ \A i, j, l \in DOMAIN order :
              i < j /\ j < l /\ dirname(order[i]) = dirname(order[l])
              => dirname(order[j]) = dirname(order[i])}

\* The orders in which the walk can reach the .page files
WalkOrders(tree) == WalkOrdersOf(tree, PageFiles(tree))

\* The orders in which the walk can reach the other files.  The two kinds
\* of file share no variable (a .page file changes pages and tasks, another
\* file max_version), so the walk is given as one order of each kind.
OtherOrders(tree) == WalkOrdersOf(tree, DOMAIN tree \ PageFiles(tree))

-----------------------------------------------------------------------------
(* Versioned files *)

Digits == <<"0", "1", "2", "3", "4", "5", "6", "7", "8", "9">>

IsDigit(c) == c \in Range(Digits)

DigitValue(c) == (CHOOSE i \in 1..Len(Digits) : Digits[i] = c) - 1

\* int(s) raises ValueError.  Of the forms int accepts, the ones that can
\* be written with the characters used here: digits, with single
\* underscores between them.
IntRaises(s) ==
    \/ s = <<>>
    \/ \E i \in 1..Len(s) :
          \/ ~IsDigit(s[i]) /\ s[i] # "_"
          \/ /\ s[i] = "_"
             /\ \/ i = 1 \/ i = Len(s)
                \/ ~IsDigit(s[i - 1]) \/ ~IsDigit(s[i + 1])

\* int(s), when it does not raise
RECURSIVE IntOf(_)
IntOf(s) ==
    IF s = <<>> THEN 0
    ELSE IF s[Len(s)] = "_" THEN IntOf(SubSeq(s, 1, Len(s) - 1))
    ELSE IntOf(SubSeq(s, 1, Len(s) - 1)) * 10 + DigitValue(s[Len(s)])

\* s.lstrip('.')
RECURSIVE LStripDots(_)
LStripDots(s) ==
    IF s # <<>> /\ Head(s) = "." THEN LStripDots(Tail(s)) ELSE s

\* s.split('.')
SplitDots(s) == SplitOn(s, ".")

\* PurePath.suffixes, each without its leading dot
Suffixes(p) ==
    LET name == PathName(p)
    IN  IF name # <<>> /\ name[Len(name)] = "." THEN <<>>
        ELSE Tail(SplitDots(LStripDots(name)))

\* process_versioned(path, max_version): the dict it leaves
process_versioned(path, max_version) ==
    LET suffixes == Suffixes(path)
        text == suffixes[Len(suffixes) - 1]
        version == IntOf(text)
        key == with_suffix(with_suffix(path, <<>>), PathSuffix(path))
        known == IF key \in DOMAIN max_version THEN max_version[key] ELSE 0
    IN  IF Len(suffixes) < 2 THEN max_version          \* IndexError
        ELSE IF IntRaises(text) THEN max_version       \* ValueError
        ELSE IF version > known THEN (key :> version) @@ max_version
        ELSE max_version

\* max_version after the first n files of the walk that are no .page files
RECURSIVE WalkVersioned(_, _)
WalkVersioned(vorder, n) ==
    IF n = 0 THEN <<>>
    ELSE process_versioned(vorder[n], WalkVersioned(vorder, n - 1))

-----------------------------------------------------------------------------
(* Library *)

Library(err, pages, tasks, versioned, tags) ==
    [err |-> err, notes |-> <<>>, pages |-> pages, tasks |-> tasks,
     versioned |-> versioned, tags |-> tags]

\* No Library: build_library has not returned one.
NoLibrary(err) == Library(err, <<>>, <<>>, <<>>, <<>>)

\* The loop of build_library over the first n .page files of the walk:
\* err (with the notes of the exception, the last one naming the file the
\* loop was at), and the pages (with ids, the order of the keys) and tasks
\* so far.
\* WalkStep without the re-raise: a file process_page_file fails on is
\* passed over and the walk goes on.
WalkStep_SkipFailed(before, relpath, r) ==
    LET page_id == with_suffix(relpath, <<>>)
    IN  IF r.err # "" THEN before
        ELSE [err |-> "", notes |-> <<>>,
              pages |-> (page_id :> r.page) @@ before.pages,
              ids |-> before.ids \o <<page_id>>,
              tasks |-> IF r.hasTask THEN Append(before.tasks, r.task)
                        ELSE before.tasks]

\* One turn of the loop, at the .page file relpath: `before` is the state
\* of the loop before it and r what process_page_file does for the file.
WalkStep(before, relpath, r) ==
    LET page_id == with_suffix(relpath, <<>>)
    IN  IF before.err # "" THEN before
        ELSE IF r.err # ""
        THEN [before EXCEPT !.err = r.err,
                            !.notes = Append(r.notes, relpath)]
        ELSE [err |-> "", notes |-> <<>>,
              pages |-> (page_id :> r.page) @@ before.pages,
              ids |-> before.ids \o <<page_id>>,
              tasks |-> IF r.hasTask THEN Append(before.tasks, r.task)
                        ELSE before.tasks]

RECURSIVE WalkPages(_, _, _)
WalkPages(tree, order, n) ==
    IF n = 0 THEN [err |-> "", notes |-> <<>>, pages |-> <<>>, ids |-> <<>>,
                   tasks |-> <<>>]
    ELSE WalkStep(WalkPages(tree, order, n - 1), order[n],
                  process_page_file(tree, Subdirs(tree, dirname(order[n])),
                                    with_suffix(order[n], <<>>)))

\* build_library once os.walk is over: `walked` is what the loop over the
\* .page files left.
AfterWalk(walked, vorder) ==
    LET pages == fix_siblings(walked.pages)
        tags == process_tags(pages, walked.ids)
    IN  IF walked.err # ""
        THEN [NoLibrary(walked.err) EXCEPT !.notes = walked.notes]
        ELSE IF tags.raises THEN NoLibrary("TypeError")
        ELSE Library("", pages, walked.tasks,
                     WalkVersioned(vorder, Len(vorder)), tags.tags)

\* build_library(content_dir) on the content tree `tree`, os.walk reaching
\* its .page files in the order `order` and its other files in the order
\* `vorder`.  (image_info is left out: the image files are not modelled.)
build_library(tree, order, vorder) ==
    AfterWalk(WalkPages(tree, order, Len(order)), vorder)

-----------------------------------------------------------------------------
(* main *)

\* The classes an exception is an instance of, besides its own.
Bases(exc) ==
    CASE exc = "FileNotFoundError" -> {"OSError"}
      [] exc \in {"TOMLDecodeError", "UnicodeDecodeError", "JSONDecodeError"} ->
            {"ValueError"}
      [] exc = "TemplateSyntaxError" -> {"TemplateError"}
      [] exc = "TemplateNotFound" -> {"OSError", "LookupError", "TemplateError"}
      [] exc = "UndefinedError" -> {"TemplateRuntimeError", "TemplateError"}
      [] OTHER -> {}

\* main has not ended.
NotExited == [exited |-> FALSE, exc |-> "", code |-> 0, escaped |-> ""]

\* main called system_exit(code) after build raised exc ("" when build
\* returned).
Exit(exc, code) ==
    [exited |-> TRUE, exc |-> exc, code |-> code, escaped |-> ""]

\* The exception `escaped` left main after build raised exc: the interpreter
\* prints its traceback and exits with status 1.
Unhandled(exc, escaped) ==
    [exited |-> TRUE, exc |-> exc, code |-> 1, escaped |-> escaped]

\* How main ends when build raises exc carrying the notes `notes` (exc is ""
\* when build returns).  The second handler reads e.__notes__, an attribute
\* an exception has only once a note was added to it.
main(exc, notes) ==
    LET IsInstance(cls) == exc = cls \/ cls \in Bases(exc)
    IN  IF exc = "" THEN Exit(exc, 0)
        ELSE IF IsInstance("TemplateSyntaxError") THEN Exit(exc, -1)
        ELSE IF \E cls \in {"OSError", "TypeError", "UnicodeDecodeError",
                             "TOMLDecodeError", "JSONDecodeError",
                             "TemplateError"} : IsInstance(cls)
        THEN IF notes = <<>> THEN Unhandled(exc, "AttributeError")
             ELSE Exit(exc, -2)
        ELSE Unhandled(exc, exc)

-----------------------------------------------------------------------------
(* The content trees build_library is applied to (specification SpecLib) *)

IdA == <<"a">>
IdB == <<"b">>
IdAB == <<"a", ".", "b">>
IdIndex == StrIndex
IdXIndex == <<"x">> \o StrIndex
IdSA == <<"s", "/", "a">>
IdSIndex == <<"s", "/">> \o StrIndex
PathC == <<"c">>
SufXml == <<".", "x", "m", "l">>

DescriptorOf(id) == id \o SufPage

Absent == [kind |-> "absent", int |-> 0]

\* Well-formed descriptors: with a template and each weight, or without a
\* template and with the default weight or none.
OrderedTomls ==
    {[NoToml EXCEPT !.template = [kind |-> "str", name |-> "t"], !.weight = w] :
        w \in {Absent, [kind |-> "None", int |-> 0]}
              \cup {[kind |-> "int", int |-> n] : n \in 0..MaxWeight}}
    \cup {[NoToml EXCEPT !.weight = w] :
             w \in {Absent, [kind |-> "None", int |-> 0]}}

\* Trees of at most MaxPages descriptors, over two directories.
OrderedTrees ==
    UNION {[F -> {PageFile(0, t) : t \in OrderedTomls}] :
              F \in {F \in SUBSET {DescriptorOf(id) :
                                      id \in {IdA, IdAB, IdIndex, IdXIndex,
                                              IdSA, IdSIndex}} :
                        Cardinality(F) <= MaxPages}}

\* Descriptors of every shape, field by field.
ShapedTomls ==
    {[valid |-> TRUE, template |-> t, suffix |-> x, weight |-> w,
      tags |-> g, content |-> c, data |-> 0] :
        t \in {[kind |-> "absent", name |-> ""], [kind |-> "str", name |-> "t"],
               [kind |-> "int", name |-> ""]},
        x \in {[kind |-> "absent", str |-> <<>>],
               [kind |-> "str", str |-> SufXml], [kind |-> "str", str |-> <<>>],
               [kind |-> "str", str |-> <<"x">>], [kind |-> "int", str |-> <<>>]},
        w \in {Absent, [kind |-> "int", int |-> 1], [kind |-> "None", int |-> 0],
               [kind |-> "str", int |-> 0], [kind |-> "bool", int |-> 1],
               [kind |-> "float", int |-> 0]},
        g \in {[kind |-> "absent", list |-> <<>>],
               [kind |-> "list", list |-> <<"x">>],
               [kind |-> "str", list |-> <<>>], [kind |-> "mixed", list |-> <<>>]},
        c \in {[kind |-> "absent", entries |-> <<>>],
               [kind |-> "table",
                entries |-> <<[key |-> "main", isStr |-> TRUE, path |-> PathC]>>],
               [kind |-> "table",
                entries |-> <<[key |-> "main", isStr |-> TRUE, path |-> IdB]>>],
               [kind |-> "table",
                entries |-> <<[key |-> "main", isStr |-> FALSE, path |-> <<>>]>>],
               [kind |-> "str", entries |-> <<>>],
               [kind |-> "list", entries |-> <<>>]}}
    \cup {[NoToml EXCEPT !.valid = FALSE]}

\* Trees of one descriptor of any shape, beside a text file c.
ShapedTrees ==
    {(DescriptorOf(id) :> PageFile(0, t)) @@ (PathC :> TextFile(0, 0)) :
        id \in {IdA, IdIndex, IdAB}, t \in ShapedTomls}

InitLib ==
    /\ content \in OrderedTrees \cup ShapedTrees
    /\ cdirs = <<>>
    /\ templates = <<>>
    /\ public = <<>>
    /\ pdirs = <<>>
    /\ clock = 0
    /\ pc = "library"
    /\ quick = FALSE
    /\ library = NoLibrary("none")
    /\ cur = 0
    /\ written = <<>>
    /\ rendered = {}
    /\ hist = [builds |-> 0, edits |-> 0, snap |-> <<>>, clean |-> FALSE]
    /\ status = NotExited

\* build_library(content), called on its own.
BuildLibrary ==
    /\ pc = "library"
    /\ \E order \in WalkOrders(content), vorder \in OtherOrders(content) :
           library' = build_library(content, order, vorder)
    /\ pc' = "returned"
    /\ UNCHANGED <<content, cdirs, templates, public, pdirs, clock, quick,
                   cur, written, rendered, hist, status>>

NextLib == BuildLibrary

SpecLib == InitLib /\ [][NextLib]_vars

-----------------------------------------------------------------------------
(* Build engine *)

\* The body template.render returns.  The template engine is external: the
\* body records everything the template is given, the text of the template
\* and the page, pages, tags and root of its context.
Render(text, page, pages, tags, root) ==
    <<"render", text, page, pages, tags, root>>

Depth(path) == Cardinality({i \in 1..Len(path) : path[i] = "/"})

RECURSIVE DotDots(_)
DotDots(n) ==
    IF n = 0 THEN <<".">>
    ELSE IF n = 1 THEN <<".", ".">>
    ELSE <<".", ".", "/">> \o DotDots(n - 1)

\* root of output_site: one ".." for each directory above the output file
RootOf(output_path) == DotDots(Depth(output_path)) \o <<"/">>

ExistsPublic(path) == path \in DOMAIN public \/ path \in DOMAIN pdirs

MtimePublic(path) ==
    IF path \in DOMAIN public THEN public[path].mtime ELSE pdirs[path]

MtimeContent(path) ==
    IF path \in DOMAIN content THEN content[path].mtime ELSE cdirs[path]

\* Whether ignore (of build) lists the file or directory at path, a
\* relative path of the content tree
ignore(path) ==
    \/ PathSuffix(path) = SufPage
    \/ Join(path, IgnoreName) \in DOMAIN content
    \/ /\ ExistsPublic(path)
       /\ MtimeContent(path) < MtimePublic(path)

\* copytree enters directory d: none of the directories down to it is
\* ignored.
RECURSIVE Entered(_)
Entered(d) == d = <<>> \/ (Entered(dirname(d)) /\ ~ignore(d))

CopiedFiles == {p \in DOMAIN content : Entered(dirname(p)) /\ ~ignore(p)}

CopiedDirs == {d \in DOMAIN cdirs : Entered(d)}

\* shutil.copytree(content, public, ignore=ignore, dirs_exist_ok=True): the
\* files it copies get the body and (copy2) the mtime of their source; the
\* directories it enters are made if missing and get (copystat, after their
\* entries are copied) the mtime of their source.
CopytreePublic ==
    [p \in DOMAIN public \cup CopiedFiles |->
        IF p \in CopiedFiles
        THEN [mtime |-> content[p].mtime, body |-> content[p].text]
        ELSE public[p]]

CopytreeDirs ==
    [d \in DOMAIN pdirs \cup CopiedDirs |->
        IF d \in CopiedDirs THEN cdirs[d] ELSE pdirs[d]]

\* The quick-mode test of output_site: the task is skipped.
Skipped(task) ==
    /\ quick
    /\ task.output_path \in DOMAIN public
    /\ public[task.output_path].mtime > task.latest_timestamp

\* Differs with the comparison left out: the file is written whatever it holds.
Differs_Always(output, output_path) == TRUE

\* output != old_output, where old_output is False when there is no file
Differs(output, output_path) ==
    \/ output_path \notin DOMAIN public
    \/ public[output_path].body # output

Idle == pc \in {"idle", "done", "failed"}

\* build(content, templates, public, quick), up to the return of copytree
BuildCopy ==
    /\ Idle
    /\ hist.builds < MaxBuilds
    /\ \E q \in BOOLEAN : quick' = q
    /\ public' = CopytreePublic
    /\ pdirs' = CopytreeDirs
    /\ pc' = "walk"
    /\ cur' = 0
    /\ written' = <<>>
    /\ rendered' = {}
    /\ hist' = [hist EXCEPT !.builds = @ + 1, !.snap = public,
                            !.clean = (pc = "done" /\ quick)]
    /\ status' = NotExited
    /\ UNCHANGED <<content, cdirs, templates, clock, library>>

\* library = build_library(content), in build
BuildWalk ==
    /\ pc = "walk"
    /\ \E order \in WalkOrders(content), vorder \in OtherOrders(content) :
           library' = build_library(content, order, vorder)
    /\ pc' = IF library'.err = "" THEN "output" ELSE "failed"
    /\ status' = IF library'.err = "" THEN status
                  ELSE main(library'.err, library'.notes)
    /\ cur' = 1
    /\ UNCHANGED <<content, cdirs, templates, public, pdirs, clock, quick,
                   written, rendered, hist>>

\* One turn of the loop of output_site, for library.tasks[cur]
OutputTask ==
    /\ pc = "output"
    /\ cur <= Len(library.tasks)
    /\ LET task == library.tasks[cur]
           page == library.pages[task.page_id]
           output == Render(templates[task.template], page, library.pages,
                            library.tags, RootOf(task.output_path))
       IN  IF Skipped(task)
           THEN /\ cur' = cur + 1
                /\ UNCHANGED <<public, pdirs, clock, pc, written, rendered,
                               status>>
           ELSE IF ~Differs(output, task.output_path)
           THEN /\ cur' = cur + 1
                /\ rendered' = rendered \cup {cur}
                /\ UNCHANGED <<public, pdirs, clock, pc, written, status>>
           ELSE IF dirname(task.output_path) \notin DOMAIN pdirs
           THEN \* open raises FileNotFoundError
                /\ pc' = "failed"
                /\ status' = main("FileNotFoundError", <<>>)
                /\ rendered' = rendered \cup {cur}
                /\ UNCHANGED <<public, pdirs, clock, cur, written>>
           ELSE \E now \in {clock, clock + 1} :
                /\ public' = (task.output_path :>
                                 [mtime |-> now, body |-> output]) @@ public
                /\ pdirs' = IF task.output_path \in DOMAIN public THEN pdirs
                            ELSE [pdirs EXCEPT
                                     ![dirname(task.output_path)] = now]
                /\ clock' = now
                /\ cur' = cur + 1
                /\ rendered' = rendered \cup {cur}
                /\ written' = Append(written, task.output_path)
                /\ UNCHANGED <<pc, status>>
    /\ UNCHANGED <<content, cdirs, templates, quick, library, hist>>

\* The loop of output_site is over: output_site and build return, and
\* main exits.
OutputFinished ==
    /\ pc = "output"
    /\ cur > Len(library.tasks)
    /\ pc' = "done"
    /\ status' = main("", <<>>)
    /\ UNCHANGED <<content, cdirs, templates, public, pdirs, clock, quick,
                   library, cur, written, rendered, hist>>

-----------------------------------------------------------------------------
(* The site the build engine runs on (specification Spec), and its editor *)

IdSQ == <<"s", "/", "q">>
PathSF == <<"s", "/", "f">>
PathHF == <<"h", "/", "f">>
DirS == <<"s">>
DirH == <<"h">>

TomlA ==
    [NoToml EXCEPT
        !.template = [kind |-> "str", name |-> "t"],
        !.content = [kind |-> "table",
                     entries |-> <<[key |-> "main", isStr |-> TRUE,
                                    path |-> PathC]>>]]

TomlQ == [NoToml EXCEPT !.template = [kind |-> "str", name |-> "t"]]

Site ==
    (DescriptorOf(IdA) :> PageFile(0, TomlA))
    @@ (DescriptorOf(IdAB) :> PageFile(0, NoToml))
    @@ (PathC :> TextFile(0, 0))
    @@ (DescriptorOf(IdSQ) :> PageFile(0, TomlQ))
    @@ (PathSF :> TextFile(0, 0))
    @@ (Join(DirH, IgnoreName) :> TextFile(0, 0))
    @@ (PathHF :> TextFile(0, 0))

Init ==
    /\ content = Site
    /\ cdirs = [d \in AllDirs(Site) \cup {<<>>} |-> 0]
    /\ templates = ("t" :> 0)
    /\ public = <<>>
    /\ pdirs = <<>>
    /\ clock = 0
    /\ pc = "idle"
    /\ quick = FALSE
    /\ library = NoLibrary("none")
    /\ cur = 0
    /\ written = <<>>
    /\ rendered = {}
    /\ hist = [builds |-> 0, edits |-> 0, snap |-> <<>>, clean |-> FALSE]
    /\ status = NotExited

Edited ==
    /\ pc' = "idle"
    /\ status' = NotExited
    /\ hist' = [hist EXCEPT !.edits = @ + 1]
    /\ UNCHANGED <<cdirs, public, pdirs, quick, library, cur, written,
                   rendered>>

\* The text of a file of the content tree is rewritten in place.
EditText ==
    /\ Idle
    /\ hist.edits < MaxEdits
    /\ \E p \in {PathC, PathSF}, now \in {clock, clock + 1} :
          /\ content' = [content EXCEPT
                            ![p] = [@ EXCEPT !.mtime = now,
                                             !.text = Raw(1 - @[2])]]
          /\ clock' = now
    /\ Edited
    /\ UNCHANGED templates

\* A descriptor is rewritten in place, with another data section.
EditDescriptor ==
    /\ Idle
    /\ hist.edits < MaxEdits
    /\ \E p \in {DescriptorOf(IdA), DescriptorOf(IdAB)},
          now \in {clock, clock + 1} :
          /\ content' = [content EXCEPT
                            ![p] = [@ EXCEPT !.mtime = now,
                                             !.toml.data = 1 - @]]
          /\ clock' = now
    /\ Edited
    /\ UNCHANGED templates

\* The template is rewritten.
EditTemplate ==
    /\ Idle
    /\ hist.edits < MaxEdits
    /\ templates' = [templates EXCEPT !["t"] = 1 - @]
    /\ Edited
    /\ UNCHANGED <<content, clock>>

Next ==
    \/ BuildCopy
    \/ BuildWalk
    \/ OutputTask
    \/ OutputFinished
    \/ EditText
    \/ EditDescriptor
    \/ EditTemplate

Spec == Init /\ [][Next]_vars

-----------------------------------------------------------------------------
(* Builds that fail (specification SpecErr) *)

\* The exceptions of the template engine: get_template raises the first two
\* (the template does not parse, or is not in the templates directory),
\* render the third (the template fails on the context of this page).
EngineErrors == {"TemplateSyntaxError", "TemplateNotFound", "UndefinedError"}

\* One turn of the loop of output_site in which the template engine raises,
\* in get_template or in render: the file of the task is not opened, and
\* the exception leaves output_site and build.
OutputTaskRaises ==
    /\ pc = "output"
    /\ cur <= Len(library.tasks)
    /\ ~Skipped(library.tasks[cur])
    /\ \E exc \in EngineErrors : status' = main(exc, <<>>)
    /\ pc' = "failed"
    /\ UNCHANGED <<content, cdirs, templates, public, pdirs, clock, quick,
                   library, cur, written, rendered, hist>>

\* main, started where find_site_root finds no content directory: it
\* raises OSError before build is called.
MainNoSiteRoot ==
    /\ Idle
    /\ hist.builds < MaxBuilds
    /\ pc' = "failed"
    /\ status' = main("OSError", <<>>)
    /\ library' = NoLibrary("none")
    /\ cur' = 0
    /\ written' = <<>>
    /\ rendered' = {}
    /\ hist' = [hist EXCEPT !.builds = @ + 1, !.snap = public,
                            !.clean = FALSE]
    /\ UNCHANGED <<content, cdirs, templates, public, pdirs, clock, quick>>

\* What a descriptor is rewritten into: no TOML, tags that are no list, or
\* a suffix without its dot.
Broken(toml) ==
    {[toml EXCEPT !.valid = FALSE],
     [toml EXCEPT !.tags = [kind |-> "str", list |-> <<>>]],
     [toml EXCEPT !.suffix = [kind |-> "str", str |-> <<"x">>]]}

\* A descriptor is rewritten in place into one that cannot be processed.
BreakDescriptor ==
    /\ Idle
    /\ hist.edits < MaxEdits
    /\ \E p \in PageFiles(content), now \in {clock, clock + 1} :
          \E toml \in Broken(content[p].toml) :
             /\ content' = [content EXCEPT
                               ![p] = [@ EXCEPT !.mtime = now, !.toml = toml]]
             /\ clock' = now
    /\ Edited
    /\ UNCHANGED templates

\* A sharded text with a backslash in its body, which tomllib rejects.
BrokenText == Chars(<<Marker(<<"a">>), Char("\\"), Char("x")>>)

\* The text file a page takes its content from is rewritten in place into
\* one that process_content cannot decode.
BreakText ==
    /\ Idle
    /\ hist.edits < MaxEdits
    /\ \E now \in {clock, clock + 1} :
          /\ content' = [content EXCEPT
                            ![PathC] = [@ EXCEPT !.mtime = now,
                                                 !.text = BrokenText]]
          /\ clock' = now
    /\ Edited
    /\ UNCHANGED templates

\* The site the failing builds run on: two pages with a task each, a page
\* without a template and the text file page a takes its content from.
SiteErr ==
    (DescriptorOf(IdA) :> PageFile(0, TomlA))
    @@ (DescriptorOf(IdAB) :> PageFile(0, NoToml))
    @@ (DescriptorOf(IdB) :> PageFile(0, NoToml))
    @@ (PathC :> TextFile(0, 0))

InitErr ==
    /\ content = SiteErr
    /\ cdirs = (<<>> :> 0)
    /\ templates = ("t" :> 0)
    /\ public = <<>>
    /\ pdirs = <<>>
    /\ clock = 0
    /\ pc = "idle"
    /\ quick = FALSE
    /\ library = NoLibrary("none")
    /\ cur = 0
    /\ written = <<>>
    /\ rendered = {}
    /\ hist = [builds |-> 0, edits |-> 0, snap |-> <<>>, clean |-> FALSE]
    /\ status = NotExited

NextErr ==
    \/ BuildCopy
    \/ BuildWalk
    \/ OutputTask
    \/ OutputTaskRaises
    \/ OutputFinished
    \/ MainNoSiteRoot
    \/ BreakDescriptor
    \/ BreakText

SpecErr == InitErr /\ [][NextErr]_vars


-----------------------------------------------------------------------------
(* Properties of the Library *)

\* build_library has returned a Library.
Returned == library.err = ""

\* P has an integer weight and a non-empty output path.
Placed(P) == ~P.weight.isNone /\ P.path # <<>>

\* The pages of P's directory that have an integer weight and an output path
DirectorySet(P) ==
    {q \in DOMAIN library.pages :
        library.pages[q].dir = P.dir /\ Placed(library.pages[q])}

\* a comes before b in the ascending order of (weight, id)
Before(a, b) ==
    LET wa == library.pages[a].weight.int
        wb == library.pages[b].weight.int
    IN  wa < wb \/ (wa = wb /\ StrLess(a, b))

\* l lists the set S once each, ascending
AscendingListOf(l, S) ==
    /\ Range(l) = S
    /\ Len(l) = Cardinality(S)
    /\ \A i, j \in 1..Len(l) : i < j => Before(l[i], l[j])

\* x is the greatest element of S before p, or None when there is none
ImmediatelyBefore(x, p, S) ==
    IF \E q \in S : Before(q, p)
    THEN /\ x \in S /\ Before(x, p)
         /\ \A q \in S : Before(q, p) => q = x \/ Before(q, x)
    ELSE x = NoneId

ImmediatelyAfter(x, p, S) ==
    IF \E q \in S : Before(p, q)
    THEN /\ x \in S /\ Before(p, x)
         /\ \A q \in S : Before(p, q) => q = x \/ Before(x, q)
    ELSE x = NoneId

\* C1: every page with an integer weight and an output path lists as its
\* siblings the other such pages of its directory in ascending (weight, id)
\* order, and has as lighter and heavier its neighbours in that order (None
\* at either end).
C1_SiblingsOrdered ==
    Returned =>
        \A p \in DOMAIN library.pages :
            LET P == library.pages[p]
            IN  Placed(P) =>
                    /\ AscendingListOf(P.siblings, DirectorySet(P) \ {p})
                    /\ ImmediatelyBefore(P.lighter, p, DirectorySet(P) \ {p})
                    /\ ImmediatelyAfter(P.heavier, p, DirectorySet(P) \ {p})

\* A page between two others of its directory, one of them of its own weight.
C1_Witness ==
    /\ Returned
    /\ \E p \in DOMAIN library.pages :
          LET P == library.pages[p]
          IN  /\ Placed(P)
              /\ P.lighter # NoneId /\ P.heavier # NoneId
              /\ library.pages[P.lighter].weight = P.weight
              /\ library.pages[P.heavier].weight # P.weight

\* C2: an unweighted page has neither lighter nor heavier, and when its
\* directory holds a page with an integer weight and an output path, its
\* siblings are all those pages in ascending (weight, id) order.
C2_UnweightedUnplaced ==
    Returned =>
        \A p \in DOMAIN library.pages :
            LET P == library.pages[p]
            IN  P.weight.isNone =>
                    /\ P.lighter = NoneId /\ P.heavier = NoneId
                    /\ DirectorySet(P) # {} =>
                           AscendingListOf(P.siblings, DirectorySet(P))

\* An unweighted page beside two pages that have a weight and an output.
C2_Witness ==
    /\ Returned
    /\ \E p \in DOMAIN library.pages :
          /\ library.pages[p].weight.isNone
          /\ Len(library.pages[p].siblings) = 2

\* The descriptor of page id: the file its id was taken from.
TomlOf(id) == content[DescriptorOf(id)].toml

TasksOf(id) == {i \in 1..Len(library.tasks) : library.tasks[i].page_id = id}

\* C8: the tasks are one for each page whose descriptor declares a template
\* and none for another page; a task has the output path of its page, which
\* is a key of the page map; a page without a template has an empty output
\* path and filename.
C8_TaskPerTemplate ==
    Returned =>
        /\ \A i \in 1..Len(library.tasks) :
              /\ library.tasks[i].page_id \in DOMAIN library.pages
              /\ library.tasks[i].output_path
                     = library.pages[library.tasks[i].page_id].path
        /\ \A p \in DOMAIN library.pages :
              IF TomlOf(p).template.kind = "str"
              THEN Cardinality(TasksOf(p)) = 1
              ELSE /\ TasksOf(p) = {}
                   /\ library.pages[p].path = <<>>
                   /\ library.pages[p].filename = <<>>

\* C9: without a weight field the weight is None exactly when the last
\* segment of the id is index, and 0 otherwise; an integer is kept as given;
\* the string "None" gives None.
C9_WeightResolution ==
    Returned =>
        \A p \in DOMAIN library.pages :
            LET w == TomlOf(p).weight
                resolved == library.pages[p].weight
            IN  /\ w.kind = "absent" =>
                       resolved = IF PathName(p) = StrIndex THEN WNone
                                  ELSE WInt(0)
                /\ w.kind = "int" => resolved = WInt(w.int)
                /\ w.kind = "None" => resolved = WNone

\* A descriptor with a wrongly shaped field
WronglyShaped(toml, dir) ==
    \/ toml.tags.kind \in {"str", "mixed"}
    \/ toml.weight.kind \in {"str", "bool", "float"}
    \/ toml.template.kind = "int"
    \/ toml.suffix.kind = "int"
    \/ toml.content.kind \in {"str", "list"}
    \/ \E i \in 1..Len(toml.content.entries) :
          \/ ~toml.content.entries[i].isStr
          \/ Join(dir, toml.content.entries[i].path) \notin DOMAIN content

\* C10: a descriptor with a wrongly shaped field makes build_library raise
\* TypeError, whatever its other fields are.
C10_ShapeRejected ==
    pc = "returned" =>
        \A f \in PageFiles(content) :
            content[f].toml.valid /\ WronglyShaped(content[f].toml, dirname(f))
            => library.err = "TypeError"

-----------------------------------------------------------------------------
(* Properties of the build engine *)

\* output_site is at a task: the step taken is a turn of its loop.
AtTask == pc = "output" /\ cur <= Len(library.tasks)

\* The latest timestamp of page id: the greatest mtime among its descriptor
\* and the files its content table lists.
LatestOf(id) ==
    LET entries == TomlOf(id).content.entries
        mtimes == {content[DescriptorOf(id)].mtime}
                  \cup {content[Join(dirname(id), entries[i].path)].mtime :
                           i \in 1..Len(entries)}
    IN  CHOOSE m \in mtimes : \A n \in mtimes : n <= m

\* C3: in quick mode a task is neither rendered nor written exactly when its
\* output file exists with an mtime strictly greater than the greatest mtime
\* among the page's descriptor and the files of its content table.
C3_QuickSkipRule ==
    [][AtTask /\ quick =>
          LET task == library.tasks[cur]
          IN  (rendered' = rendered /\ written' = written)
              <=> /\ task.output_path \in DOMAIN public
                  /\ public[task.output_path].mtime > LatestOf(task.page_id)
       ]_vars

\* C4: a quick build that follows a completed quick build, no source having
\* changed since, writes no output file and leaves every file of the output
\* tree with the body and the mtime it had.
C4_QuickIdempotent ==
    pc = "done" /\ quick /\ hist.clean =>
        written = <<>> /\ public = hist.snap

\* The body a fresh render of task i gives
FreshRender(i) ==
    LET task == library.tasks[i]
    IN  Render(templates[task.template], library.pages[task.page_id],
               library.pages, library.tags, RootOf(task.output_path))

\* C5: when a build has completed, every task it did not skip (in full mode:
\* every task) has an output file whose body is the render of its page.
C5_OutputsFresh ==
    pc = "done" =>
        /\ ~quick => rendered = 1..Len(library.tasks)
        /\ \A i \in rendered :
              /\ library.tasks[i].output_path \in DOMAIN public
              /\ public[library.tasks[i].output_path].body = FreshRender(i)

\* C6: a task that is rendered has its output file written if and only if
\* the file does not exist or its body differs from the rendered body; when
\* it is not written the output tree is as it was.
C6_WriteIfChanged ==
    [][AtTask /\ rendered' # rendered =>
          LET path == library.tasks[cur].output_path
          IN  /\ written' # written
                    <=> \/ path \notin DOMAIN public
                        \/ public[path].body # FreshRender(cur)
              /\ written' # written =>
                    /\ written' = Append(written, path)
                    /\ public'[path].body = FreshRender(cur)
              /\ written' = written => public' = public /\ pdirs' = pdirs
       ]_vars

\* A build rendered a task and did not write its output.
C6_Witness ==
    /\ pc = "done"
    /\ Cardinality(rendered) > Len(written)
    /\ written # <<>>

\* The path lies in a directory that carries the ignore marker.
InIgnored(p) ==
    \E d \in AllDirs(content) :
        /\ IsAbove(d, dirname(p)) \/ d = dirname(p)
        /\ Join(d, IgnoreName) \in DOMAIN content

\* C7: when a build has completed after the last edit, every file of the
\* content tree that is no descriptor and lies in no ignored directory has a
\* copy in the output tree with the body of the source.
C7_StaticCopied ==
    pc = "done" =>
        \A p \in DOMAIN content :
            PathSuffix(p) # SufPage /\ ~InIgnored(p) =>
                /\ p \in DOMAIN public
                /\ public[p].body = content[p].text

-----------------------------------------------------------------------------
(* Properties of the links between the pages of a Library *)

\* The ids P names: its siblings, its lighter and its heavier.
NamedBy(P) == Range(P.siblings) \cup ({P.lighter, P.heavier} \ {NoneId})

\* C17: every id in a page's siblings, lighter or heavier is a page of the
\* page map that lies in the page's directory and has an integer weight and
\* an output path; no siblings list holds the page's own id or an id twice.
C17_LinksWellFormed ==
    Returned =>
        \A p \in DOMAIN library.pages :
            LET P == library.pages[p]
            IN  /\ \A q \in NamedBy(P) :
                      /\ q \in DOMAIN library.pages
                      /\ dirname(q) = dirname(p)
                      /\ Placed(library.pages[q])
                /\ p \notin Range(P.siblings)
                /\ \A i, j \in 1..Len(P.siblings) :
                      P.siblings[i] = P.siblings[j] => i = j

\* A page without an output path names a sibling and a neighbour.
C17_Witness ==
    /\ Returned
    /\ \E p \in DOMAIN library.pages :
          LET P == library.pages[p]
          IN  /\ P.path = <<>>
              /\ ~P.weight.isNone
              /\ P.siblings # <<>>
              /\ P.heavier # NoneId

\* C18: A.heavier = B if and only if B.lighter = A, for all pages A and B.
C18_LinksInverse ==
    Returned =>
        \A a, b \in DOMAIN library.pages :
            library.pages[a].heavier = b <=> library.pages[b].lighter = a

\* C18 as amended: A.heavier = B if and only if B.lighter = A, for all pages
\* A and B that both have an integer weight and an output path.
C18_PlacedLinksInverse ==
    Returned =>
        \A a, b \in DOMAIN library.pages :
            Placed(library.pages[a]) /\ Placed(library.pages[b]) =>
                (library.pages[a].heavier = b <=> library.pages[b].lighter = a)

\* Three placed pages in one directory: the middle one is linked both ways.
C18_Witness ==
    /\ Returned
    /\ \E a, b, c \in DOMAIN library.pages :
          /\ Placed(library.pages[a]) /\ Placed(library.pages[b])
          /\ Placed(library.pages[c])
          /\ library.pages[a].heavier = b /\ library.pages[b].lighter = a
          /\ library.pages[b].heavier = c /\ library.pages[c].lighter = b

\* C19: no two tasks of a Library have the same output path.
C19_DistinctOutputs ==
    Returned =>
        \A i, j \in 1..Len(library.tasks) :
            library.tasks[i].output_path = library.tasks[j].output_path
                => i = j

-----------------------------------------------------------------------------
(* The tagged content trees build_library is applied to (specification     *)
(* SpecTags), and the tag index                                            *)

\* Well-formed descriptors with a template, each weight and each tag list.
TaggedTomls ==
    {[NoToml EXCEPT !.template = [kind |-> "str", name |-> "t"],
                    !.weight = w,
                    !.tags = [kind |-> "list", list |-> g]] :
        w \in {Absent, [kind |-> "None", int |-> 0]}
              \cup {[kind |-> "int", int |-> n] : n \in 0..MaxWeight},
        g \in {<<>>, <<"x">>, <<"y">>, <<"x", "y">>}}

\* Trees of at most MaxPages tagged descriptors.
TaggedTrees ==
    UNION {[F -> {PageFile(0, t) : t \in TaggedTomls}] :
              F \in {F \in SUBSET {DescriptorOf(id) :
                                      id \in {IdA, IdIndex, IdSA}} :
                        Cardinality(F) <= MaxPages}}

InitTags ==
    /\ content \in TaggedTrees
    /\ cdirs = <<>>
    /\ templates = <<>>
    /\ public = <<>>
    /\ pdirs = <<>>
    /\ clock = 0
    /\ pc = "library"
    /\ quick = FALSE
    /\ library = NoLibrary("none")
    /\ cur = 0
    /\ written = <<>>
    /\ rendered = {}
    /\ hist = [builds |-> 0, edits |-> 0, snap |-> <<>>, clean |-> FALSE]
    /\ status = NotExited

SpecTags == InitTags /\ [][NextLib]_vars

\* The pages whose descriptor lists the tag.
Tagged(tag) ==
    {id \in {with_suffix(f, <<>>) : f \in DOMAIN content} :
        tag \in Range(TomlOf(id).tags.list)}

\* C13: build_library returns for every tree of well-formed descriptors,
\* and its tag index maps each tag to the pages that list it, those with an
\* integer weight in ascending (weight, id) order among themselves.
C13_TagIndexBuilt ==
    pc = "returned" =>
        /\ library.err = ""
        /\ \A tag \in {"x", "y"} :
              IF Tagged(tag) = {} THEN tag \notin DOMAIN library.tags
              ELSE /\ tag \in DOMAIN library.tags
                   /\ Range(library.tags[tag]) = Tagged(tag)
                   /\ Len(library.tags[tag]) = Cardinality(Tagged(tag))
                   /\ \A i, j \in 1..Len(library.tags[tag]) :
                         LET a == library.tags[tag][i]
                             b == library.tags[tag][j]
                         IN  /\ i < j
                             /\ ~library.pages[a].weight.isNone
                             /\ ~library.pages[b].weight.isNone
                             => Before(a, b)

-----------------------------------------------------------------------------
(* The trees of versioned files build_library is applied to (specification *)
(* SpecVer), and the versioned map                                         *)

MaxVersion == 2
MaxFiles == 3

\* str(n)
RECURSIVE DecimalOf(_)
DecimalOf(n) ==
    IF n < 10 THEN <<Digits[n + 1]>>
    ELSE DecimalOf(n \div 10) \o <<Digits[(n % 10) + 1]>>

SufCss == <<".", "c", "s", "s">>

\* <stem>.<N>.css
VersionedName(stem, n) == stem \o <<".">> \o DecimalOf(n) \o SufCss

\* The stems of the versioned files: one in each of two directories.
Stems == {IdA, IdSA}

\* Files a.N.css and s/a.N.css for each N, and beside them a file with no
\* version, one with a segment that is no number and one with two numbers.
VersionedFiles ==
    {VersionedName(stem, n) : stem \in Stems, n \in 0..MaxVersion}
    \cup {IdA \o SufCss, IdA \o <<".", "x">> \o SufCss,
          VersionedName(IdA \o <<".", "1">>, 0)}

VersionedTrees ==
    UNION {[F -> {TextFile(0, 0)}] :
              F \in {F \in SUBSET VersionedFiles : Cardinality(F) <= MaxFiles}}

InitVer ==
    /\ content \in VersionedTrees
    /\ cdirs = <<>>
    /\ templates = <<>>
    /\ public = <<>>
    /\ pdirs = <<>>
    /\ clock = 0
    /\ pc = "library"
    /\ quick = FALSE
    /\ library = NoLibrary("none")
    /\ cur = 0
    /\ written = <<>>
    /\ rendered = {}
    /\ hist = [builds |-> 0, edits |-> 0, snap |-> <<>>, clean |-> FALSE]
    /\ status = NotExited

SpecVer == InitVer /\ [][NextLib]_vars

\* The numbers N for which the tree holds <stem>.<N>.css
VersionsOf(stem) ==
    {n \in 0..MaxVersion : VersionedName(stem, n) \in DOMAIN content}

AllStems == Stems \cup {IdA \o <<".", "1">>, IdA \o <<".", "x">>}

\* C11: the versioned map has the key <stem>.css exactly when the tree
\* holds a file <stem>.<N>.css, and maps it to the greatest such N.
C11_MaxVersion ==
    pc = "returned" =>
        /\ library.err = ""
        /\ DOMAIN library.versioned \subseteq {stem \o SufCss : stem \in AllStems}
        /\ \A stem \in AllStems :
              IF VersionsOf(stem) = {}
              THEN stem \o SufCss \notin DOMAIN library.versioned
              ELSE /\ stem \o SufCss \in DOMAIN library.versioned
                   /\ library.versioned[stem \o SufCss] \in VersionsOf(stem)
                   /\ \A n \in VersionsOf(stem) :
                         n <= library.versioned[stem \o SufCss]

-----------------------------------------------------------------------------
(* The sharded files build_library is applied to (specification SpecShard) *)

MaxShards == 3

IdDotted == <<"a", ".", "b">>

\* Shard bodies: with white space around and inside, with three quotes in
\* a row, with a backslash before a letter that is no escape and one that
\* is, with a backslash at the end, and empty.
ShardBodies ==
    {<<" ", "x", "\n", "y", "\n">>,
     <<"x", "\"", "\"", "\"">>,
     <<"\\", "x">>,
     <<"x", "\\", "n">>,
     <<"x", "\\">>,
     <<>>}

ShardOf(id, body) ==
    <<Marker(id)>> \o [i \in 1..Len(body) |-> Char(body[i])]

\* The text of the shards n..Len(ids): marker ids[k], then bodies[k]
RECURSIVE ShardText(_, _, _)
ShardText(ids, bodies, n) ==
    IF n > Len(ids) THEN <<>>
    ELSE ShardOf(ids[n], bodies[n]) \o ShardText(ids, bodies, n + 1)

\* a.page with content.main = "c", and c with the text `items`
ShardedTree(items) ==
    (DescriptorOf(IdA) :> PageFile(0, TomlA))
    @@ (PathC :> [mtime |-> 0, toml |-> NoToml, text |-> Chars(items)])

\* c is a text that starts with a marker, or a text that has a character
\* (a letter or a blank) before its only marker, or a text with no marker.
InitShard ==
    /\ \E k \in 0..MaxShards :
          \E ids \in [1..k -> {IdA, IdB, IdDotted}],
             bodies \in [1..k -> ShardBodies],
             lead \in {<<>>, <<Char("x")>>, <<Char(" ")>>} :
              /\ lead # <<>> => k <= 1
              /\ content = ShardedTree(lead \o ShardText(ids, bodies, 1))
    /\ cdirs = <<>>
    /\ templates = <<>>
    /\ public = <<>>
    /\ pdirs = <<>>
    /\ clock = 0
    /\ pc = "library"
    /\ quick = FALSE
    /\ library = NoLibrary("none")
    /\ cur = 0
    /\ written = <<>>
    /\ rendered = {}
    /\ hist = [builds |-> 0, edits |-> 0, snap |-> <<>>, clean |-> FALSE]
    /\ status = NotExited

SpecShard == InitShard /\ [][NextLib]_vars

\* The items of the file c
FileItems == content[PathC].text[2]

\* The bodies of the shards of identifier id, trimmed, in file order
TrimmedBodies(id) ==
    LET at == SelectSeq([i \in 1..Len(FileItems) |-> i],
                        LAMBDA i : FileItems[i].m /\ FileItems[i].id = id)
        BodyAfter(i) ==
            LET ends == {j \in (i + 1)..Len(FileItems) : FileItems[j].m}
                last == IF ends = {} THEN Len(FileItems)
                        ELSE (CHOOSE j \in ends : \A l \in ends : j <= l) - 1
            IN  Strip([n \in 1..(last - i) |-> FileItems[i + n].c])
    IN  [k \in 1..Len(at) |-> BodyAfter(at[k])]

\* What process_content returned for c: content.main of page a
Decoded == library.pages[IdA].content[1][2]

\* C12: decoding a file whose first line is a shard marker binds each
\* identifier whose marker appears once to its trimmed body and each
\* identifier whose marker appears several times to the list of its trimmed
\* bodies in file order; a file whose first line is no marker is returned
\* as its text.
C12_ShardDecoding ==
    pc = "returned" =>
        /\ library.err = ""
        /\ IF FileItems # <<>> /\ FileItems[1].m
           THEN /\ DOMAIN Decoded = {FileItems[i].id : i \in
                                        {i \in 1..Len(FileItems) : FileItems[i].m}}
                /\ \A id \in DOMAIN Decoded :
                      /\ Decoded[id].isList = (Len(TrimmedBodies(id)) > 1)
                      /\ Decoded[id].strs = TrimmedBodies(id)
           ELSE Decoded = content[PathC].text

-----------------------------------------------------------------------------
(* Failing builds *)

\* The descriptors of the tree that process_page_file raises on
FailingDescriptors(tree) ==
    {p \in PageFiles(tree) :
        process_page_file(tree, Subdirs(tree, dirname(p)),
                          with_suffix(p, <<>>)).err # ""}

\* build_library has been called in this run of main, on the content tree
\* as it is now.
Walked == pc \in {"output", "done", "failed"} /\ library.err # "none"

\* The files of the output tree that are no copies of content files are as
\* the run found them.
RenderedUntouched ==
    \A p \in (DOMAIN public \cup DOMAIN hist.snap) \ DOMAIN content :
        p \in DOMAIN public /\ p \in DOMAIN hist.snap
        /\ public[p] = hist.snap[p]

\* C14: when process_page_file fails on a descriptor of the tree, build
\* raises that error carrying a note that names a descriptor it fails on
\* (the one the walk was at), output_site gets no Library (nothing is
\* rendered or written) and every rendered file of the output tree is as
\* the run found it.
C14_FailFast ==
    Walked /\ FailingDescriptors(content) # {} =>
        /\ pc = "failed"
        /\ library.err # ""
        /\ status.exited /\ status.exc = library.err
        /\ library.notes # <<>>
        /\ library.notes[Len(library.notes)] \in FailingDescriptors(content)
        /\ library.pages = <<>> /\ library.tasks = <<>>
        /\ rendered = {} /\ written = <<>>
        /\ RenderedUntouched

\* A build that failed on a descriptor that is not the only one of the tree,
\* and that found the outputs of an earlier build.
C14_Witness ==
    /\ pc = "failed"
    /\ library.err = "TOMLDecodeError"
    /\ library.notes = <<DescriptorOf(IdB)>>
    /\ FailingDescriptors(content) = {DescriptorOf(IdB)}
    /\ with_suffix(IdA, SufHtml) \in DOMAIN public

\* The task the template engine raised on
Raised == pc = "failed" /\ status.exc \in EngineErrors

\* C15: when the template engine raises on task k, the output file of task
\* k is as the run found it (or still missing), the files written for the
\* tasks before k are in the output tree, and no task from k on is rendered
\* or written.
C15_FailedTaskUntouched ==
    Raised =>
        LET path == library.tasks[cur].output_path
        IN  /\ IF path \in DOMAIN hist.snap
               THEN path \in DOMAIN public /\ public[path] = hist.snap[path]
               ELSE path \notin DOMAIN public
            /\ \A i \in 1..Len(written) : written[i] \in DOMAIN public
            /\ rendered \subseteq 1..(cur - 1)
            /\ Len(written) <= cur - 1

\* C16: main ends every build with system_exit: 0 when build returned, one
\* nonzero code when the template engine raised, another nonzero code when
\* anything else was raised; no exception leaves main.
C16_ExitCodes ==
    status.exited =>
        /\ status.escaped = ""
        /\ status.exc = "" => status.code = 0
        /\ status.exc \in EngineErrors => status.code = -1
        /\ status.exc # "" /\ status.exc \notin EngineErrors =>
               status.code = -2

====
